---- MODULE Spec2Model ----
(***************************************************************************)
(* whiteout: the macros eraser! and erase! (src/src/lib.rs).               *)
(*                                                                         *)
(* The two macros are pure templates, so what they do is decided by what   *)
(* their expansions mean to the Rust compiler.  The model is a caller's    *)
(* block that is written one statement at a time; a statement is added     *)
(* only when the compiler accepts it, and it is evaluated when it is       *)
(* added.  A state is therefore an accepted program together with the      *)
(* values it has computed, and "the compiler rejects statement s here" is  *)
(* the state predicate "s is not acceptable in this state".                *)
(*                                                                         *)
(* Function items are visible in the whole block that declares them, so    *)
(* the caller's items are declared first; let statements follow; the       *)
(* program ends with one use of an operation on its variables.  Variables  *)
(* are named by their position (let number 1, 2, ...).                     *)
(***************************************************************************)
EXTENDS Integers, Sequences, FiniteSets, TLC

VARIABLES items, locals, effects, pc, used

vars == <<items, locals, effects, pc, used>>

(* ------------------------------ bounds -------------------------------- *)
MaxItems == 2      \* function items the caller declares
MaxLets == 2       \* let statements of the caller

(* the integer literals of the documentation tests: erase!(10, ..),
   erase!(5, ..), and a + 10 *)
LitTen == 10
LitFive == 5
AddLit == 10

(* --------------------------- names and traits -------------------------- *)
\* "f" is the name erase! gives its wrapper; the caller may use it as well.
FnNames == {"f", "g"}
\* the name the caller gives the wrappers it generates with eraser!
WrapperNames == {"g"}
NoFn == "-"

\* Add<i64, Output=i64>, Add<Self, Output=Self>, Debug, and a declared trait
\* that no type implements.
DeclaredTraits == {"AddI64", "AddSelf", "Debug", "Never"}

\* the bounds a caller writes: the one of the erase! tests, MyTrait of the
\* eraser! tests (a conjunction), one nothing satisfies, one that names a
\* trait that is not declared, and the empty token list.
CapSets == {{"AddI64"}, {"AddSelf", "Debug"}, {"Never"}, {"Undeclared"}, {}}

ConcreteTypes == {"i64", "i32"}

\* the traits each concrete type implements
Impls(ty) ==
    CASE ty = "i64" -> {"AddI64", "AddSelf", "Debug"}
      [] ty = "i32" -> {"AddSelf", "Debug"}
      [] OTHER -> {}

(* ------------------------------- types --------------------------------- *)
\* A static type is a concrete type under a stack of opaque layers, the
\* outermost first.  A layer is the function item whose `impl Trait` return
\* type it is, with the bound that item declares.
Concrete(ty) == [base |-> ty, wraps |-> <<>>]

NoDef == [name |-> NoFn, stmt |-> 0]
\* an item declared in the caller's block
ItemDef(name) == [name |-> name, stmt |-> 0]
\* the item declared by the erase! invocation in let statement k
\* (faulty variant: one item shared by all the invocations)
SharedInlineDef(k) == [name |-> "f", stmt |-> 1]
InlineDef(k) == [name |-> "f", stmt |-> k]

\* the declared return type `impl $tr` of the wrapper def applied to T = arg:
\* one opaque type for each T, whatever the call.
\* (Faulty variants, to show what the properties below rest on: a wrapper
\* declared to return T, and an opaque type of its own for each call.)
ReturnsT(def, tr, arg) == arg
CallSiteType(def, tr, arg) ==
    [base |-> arg.base,
     wraps |-> <<[def |-> [name |-> def.name, stmt |-> Len(locals) + 1],
                  bound |-> tr]>> \o arg.wraps]
ReturnType(def, tr, arg) ==
    [base |-> arg.base, wraps |-> <<[def |-> def, bound |-> tr]>> \o arg.wraps]

\* the traits a caller may use on a value of static type sty
Visible(sty) ==
    IF sty.wraps = <<>> THEN Impls(sty.base) ELSE Head(sty.wraps).bound

\* T: $tr  (faulty variant: the type parameter has no bound)
AnyType(sty, tr) == TRUE
Satisfies(sty, tr) == tr \subseteq Visible(sty)

IsCopy(sty) == sty.wraps = <<>>


(* ------------------------------- scopes -------------------------------- *)
\* An item of a rib: nothing, a function the caller wrote, or a wrapper that
\* eraser! generated.
NoItem == [kind |-> "none", def |-> NoDef, bound |-> {}]
UserFn(name) == [kind |-> "user", def |-> ItemDef(name), bound |-> {}]
Wrapper(def, tr) == [kind |-> "wrapper", def |-> def, bound |-> tr]

EmptyRib == [n \in FnNames |-> NoItem]

\* A scope is the stack of the ribs of the enclosing blocks, innermost last.
\* A path in an expression names the item of the innermost rib that declares
\* it: items that a macro_rules expansion declares are found by name like any
\* other item.
Resolve(scope, name) ==
    LET decl == {i \in 1..Len(scope) : scope[i][name].kind # "none"}
    IN  IF decl = {} THEN NoItem
        ELSE scope[CHOOSE i \in decl : \A j \in decl : j <= i][name]

\* the `{` and `}` of erase!: a block of its own for the wrapper
\* (faulty variant: the expansion has no block)
NoBlock(scope) == scope
InBlock(scope) == Append(scope, EmptyRib)

\* `impl` needs at least one bound, and each bound names a declared trait
\* (faulty variant: any token list is taken for a bound)
AnyTokens(tr) == TRUE
WellFormed(tr) == tr # {} /\ tr \subseteq DeclaredTraits

(* ----------------------------- expressions ----------------------------- *)
\* An atom is a typed integer literal or a variable; an expression is an atom
\* or a call of a function by name on an atom.
Lit(ty, n) == [k |-> "lit", ty |-> ty, n |-> n]
Var(i) == [k |-> "var", ty |-> "var", n |-> i]
Lits == {Lit("i64", LitTen), Lit("i64", LitFive), Lit("i32", LitFive)}
Atoms == Lits \cup {Var(i) : i \in 1..MaxLets}
Exprs == [fn : FnNames \cup {NoFn}, atom : Atoms]

Rejected ==
    [ok |-> FALSE, sty |-> Concrete("i64"), val |-> [ty |-> "i64", n |-> 0],
     ticks |-> 0, moved |-> {}]

EvalAtom(a) ==
    IF a.k = "lit"
    THEN [ok |-> TRUE, sty |-> Concrete(a.ty), val |-> [ty |-> a.ty, n |-> a.n],
          ticks |-> 0, moved |-> {}]
    ELSE IF a.n \in 1..Len(locals) /\ ~locals[a.n].moved
         THEN [ok |-> TRUE, sty |-> locals[a.n].sty, val |-> locals[a.n].val,
               ticks |-> 0,
               moved |-> IF IsCopy(locals[a.n].sty) THEN {} ELSE {a.n}]
         ELSE Rejected

\* the body of the generated function: `val`
\* (faulty variant: the body returns another value of the type)
EraserBodyZero(val) == [val EXCEPT !.n = 0]
EraserBody(val) == val

\* name(arg) in scope.  A function of the caller is
\*     fn name(x: i64) -> i64 { tick(); x + 1 }
\* and a wrapper is  fn name<T: $tr>(val: T) -> impl $tr { val }.
EvalCall(scope, name, arg) ==
    LET item == Resolve(scope, name)
    IN  IF ~arg.ok THEN Rejected
        ELSE IF item.kind = "user"
        THEN IF arg.sty = Concrete("i64")
             THEN [ok |-> TRUE, sty |-> Concrete("i64"),
                   val |-> [ty |-> "i64", n |-> arg.val.n + 1],
                   ticks |-> arg.ticks + 1, moved |-> arg.moved]
             ELSE Rejected
        ELSE IF item.kind = "wrapper"
        THEN IF Satisfies(arg.sty, item.bound)
             THEN [ok |-> TRUE,
                   sty |-> ReturnType(item.def, item.bound, arg.sty),
                   val |-> EraserBody(arg.val),
                   ticks |-> arg.ticks, moved |-> arg.moved]
             ELSE Rejected
        ELSE Rejected

EvalExpr(scope, e) ==
    IF e.fn = NoFn THEN EvalAtom(e.atom)
    ELSE EvalCall(scope, e.fn, EvalAtom(e.atom))

(* ------------------------------ the macros ----------------------------- *)
\* eraser!(name, tr) expanded in the innermost block of scope: the item
\*     fn name<T: tr>(val: T) -> impl tr { val }
\* The compiler rejects a bound that is not well formed and a name the block
\* already declares.
eraser(scope, name, tr, def) ==
    LET top == Len(scope)
    IN  [ok |-> WellFormed(tr) /\ scope[top][name].kind = "none",
         scope |-> [scope EXCEPT ![top][name] = Wrapper(def, tr)]]

\* erase!(val, tr) expanded in scope:  { eraser!(f, tr); f(val) }
\* arg is what the call f(val) passes, res what it returns, and scope the
\* caller's scope once the block is closed.
erase(scope, val, tr, def) ==
    LET blk == InBlock(scope)
        gen == eraser(blk, "f", tr, def)
        arg == EvalExpr(gen.scope, val)
        res == EvalCall(gen.scope, "f", arg)
    IN  [ok |-> gen.ok /\ res.ok, arg |-> arg, res |-> res,
         scope |-> SubSeq(gen.scope, 1, Len(scope))]

(* ------------------------------ the state ------------------------------ *)
NItems == Cardinality({n \in FnNames : items[n].kind # "none"})

\* The record of a let statement: the static type and the value of its
\* variable, whether the variable has been moved out of, and how it was made:
\* the statement, the type and the value of what the function was called on,
\* the effects the statement had, and what its expression evaluates to in the
\* caller's scope.
Binding(how, e, tr, arg, res) ==
    [sty |-> res.sty, val |-> res.val, moved |-> FALSE,
     how |-> how, e |-> e, tr |-> tr, argt |-> arg.sty, argv |-> arg.val,
     ticks |-> res.ticks,
     expect |-> EvalExpr(<<items>>, e)]

MoveOut(ls, idx) == [i \in 1..Len(ls) |-> [ls[i] EXCEPT !.moved = @ \/ i \in idx]]

NoUse == [op |-> "-", x |-> 0, y |-> 0, n |-> 0]

Init ==
    /\ items = EmptyRib
    /\ locals = <<>>
    /\ effects = 0
    /\ pc = "items"
    /\ used = NoUse

\* fn name(x: i64) -> i64 { tick(); x + 1 }
DefineFn(name) ==
    /\ pc = "items"
    /\ NItems < MaxItems
    /\ items[name].kind = "none"
    /\ items' = [items EXCEPT ![name] = UserFn(name)]
    /\ UNCHANGED <<locals, effects, pc, used>>

\* eraser!(name, tr);
InvokeEraser(name, tr) ==
    LET r == eraser(<<items>>, name, tr, ItemDef(name))
    IN  /\ pc = "items"
        /\ NItems < MaxItems
        /\ r.ok
        /\ items' = r.scope[1]
        /\ UNCHANGED <<locals, effects, pc, used>>

\* let v = name(a);
LetCall(name, a) ==
    LET e == [fn |-> name, atom |-> a]
        r == EvalExpr(<<items>>, e)
    IN  /\ pc \in {"items", "body"}
        /\ Len(locals) < MaxLets
        /\ r.ok
        /\ locals' = Append(MoveOut(locals, r.moved),
                            Binding("let", e, {}, EvalAtom(a), r))
        /\ effects' = effects + r.ticks
        /\ pc' = "body"
        /\ UNCHANGED <<items, used>>

\* let v = erase!(val, tr);
LetErase(val, tr) ==
    LET r == erase(<<items>>, val, tr, InlineDef(Len(locals) + 1))
    IN  /\ pc \in {"items", "body"}
        /\ Len(locals) < MaxLets
        /\ r.ok
        /\ locals' = Append(MoveOut(locals, r.res.moved),
                            Binding("erase", val, tr, r.arg, r.res))
        /\ effects' = effects + r.res.ticks
        /\ items' = r.scope[1]
        /\ pc' = "body"
        /\ UNCHANGED used

(* ------------------------- uses of an operation ------------------------ *)
Ops == {"AddI64", "AddSelf"}

Live(i) == i \in 1..Len(locals) /\ ~locals[i].moved

\* v_i + 10  and  v_i + v_j
UseOk(i, op, j) ==
    /\ Live(i)
    /\ op \in Visible(locals[i].sty)
    /\ op = "AddSelf" =>
          /\ Live(j)
          /\ locals[j].sty = locals[i].sty
          /\ i # j \/ IsCopy(locals[i].sty)

\* what the operation computes at run time, on the values of the operands
OpValue(op, v, w) == IF op = "AddI64" THEN v.n + AddLit ELSE v.n + w.n

UseValue(i, op, j) == OpValue(op, locals[i].val, locals[j].val)

UseMoves(i, op, j) ==
    {k \in (IF op = "AddSelf" THEN {i, j} ELSE {i}) : ~IsCopy(locals[k].sty)}

Use(i, op, j) ==
    /\ pc = "body"
    /\ op # "AddSelf" => j = i
    /\ UseOk(i, op, j)
    /\ used' = [op |-> op, x |-> i, y |-> j, n |-> UseValue(i, op, j)]
    /\ locals' = MoveOut(locals, UseMoves(i, op, j))
    /\ pc' = "done"
    /\ UNCHANGED <<items, effects>>

Next ==
    \/ \E name \in FnNames : DefineFn(name)
    \/ \E name \in WrapperNames, tr \in CapSets : InvokeEraser(name, tr)
    \/ \E name \in FnNames, a \in Atoms : LetCall(name, a)
    \/ \E val \in Exprs, tr \in CapSets : LetErase(val, tr)
    \/ \E i \in 1..MaxLets, op \in Ops, j \in 1..MaxLets : Use(i, op, j)

Spec == Init /\ [][Next]_vars


(* ------------------------------ properties ----------------------------- *)
Lets == 1..Len(locals)

\* variable i is the result of calling a wrapper the caller generated by name
FromNamed(i) ==
    /\ locals[i].how = "let"
    /\ locals[i].e.fn \in FnNames
    /\ items[locals[i].e.fn].kind = "wrapper"

\* variable i is the result of an erase! invocation
FromInline(i) == locals[i].how = "erase"

\* the capability set variable i was erased to
CapOf(i) == IF FromInline(i) THEN locals[i].tr ELSE items[locals[i].e.fn].bound

Inhabited(tr) == \E ty \in ConcreteTypes : tr \subseteq Impls(ty)

\* C1: a wrapper generated by eraser!(name, C), called on a value whose type
\* satisfies C, returns that value: the same runtime value, on which every
\* operation of C computes what it computes on the argument, and the call has
\* no effect of its own.
C1_NamedWrapperIsIdentity ==
    \A i \in Lets :
        FromNamed(i) =>
            /\ locals[i].val = locals[i].argv
            /\ locals[i].ticks = 0
            /\ CapOf(i) \subseteq Impls(locals[i].val.ty)
            /\ \A op \in CapOf(i) \cap Ops :
                   OpValue(op, locals[i].val, locals[i].val)
                       = OpValue(op, locals[i].argv, locals[i].argv)

\* a wrapper for a conjunction of traits returned the literal 10 it was given
C1_Witness ==
    \E i \in Lets :
        /\ FromNamed(i)
        /\ CapOf(i) = {"AddSelf", "Debug"}
        /\ locals[i].argv = [ty |-> "i64", n |-> LitTen]
        /\ locals[i].val.n = LitTen

\* C2 as stated: any two results of one generated wrapper whose capability set
\* has Add<Self, Output=Self> can be added, and the sum is the sum of the two
\* values the wrapper was called on.
C2_AnyTwoResultsCombine ==
    \A i, j \in Lets :
        (/\ i # j /\ Live(i) /\ Live(j)
         /\ FromNamed(i) /\ FromNamed(j)
         /\ locals[i].e.fn = locals[j].e.fn
         /\ "AddSelf" \in CapOf(i))
        => /\ UseOk(i, "AddSelf", j)
           /\ UseValue(i, "AddSelf", j) = locals[i].argv.n + locals[j].argv.n

\* C2 amended: two results of one generated wrapper, called on two values of
\* the same type, can be added when the capability set has
\* Add<Self, Output=Self>, and the sum is the sum of the two values the wrapper
\* was called on.
C2_SameInputTypeResultsCombine ==
    /\ \A i, j \in Lets :
        (/\ i # j /\ Live(i) /\ Live(j)
         /\ FromNamed(i) /\ FromNamed(j)
         /\ locals[i].e.fn = locals[j].e.fn
         /\ locals[i].argt = locals[j].argt
         /\ "AddSelf" \in CapOf(i))
        => /\ UseOk(i, "AddSelf", j)
           /\ UseValue(i, "AddSelf", j) = locals[i].argv.n + locals[j].argv.n
    /\ (/\ pc = "done" /\ used.op = "AddSelf" /\ used.x # used.y
        /\ FromNamed(used.x) /\ FromNamed(used.y))
        => used.n = locals[used.x].argv.n + locals[used.y].argv.n

\* erase_my_trait(10) + erase_my_trait(5) was evaluated, to 15
C2_Witness ==
    /\ pc = "done" /\ used.op = "AddSelf" /\ used.x # used.y
    /\ FromNamed(used.x) /\ FromNamed(used.y)
    /\ locals[used.x].argv = [ty |-> "i64", n |-> LitTen]
    /\ locals[used.y].argv = [ty |-> "i64", n |-> LitFive]
    /\ used.n = LitTen + LitFive

\* C3: the results of two erase! invocations have different types, and so has
\* the result of an erase! invocation and the result of a named wrapper, also
\* when both were written with the same capability set and given values of the
\* same type: adding one to the other is rejected.
C3_InlineResultsIncompatible ==
    \A i, j \in Lets :
        (i # j /\ FromInline(i) /\ (FromInline(j) \/ FromNamed(j)))
        => /\ locals[i].sty # locals[j].sty
           /\ ~UseOk(i, "AddSelf", j)
           /\ ~UseOk(j, "AddSelf", i)

\* two live results of erase! with the same bound, which has
\* Add<Self, Output=Self>, on values of the same type
C3_Witness ==
    \E i, j \in Lets :
        /\ i # j /\ FromInline(i) /\ FromInline(j) /\ Live(i) /\ Live(j)
        /\ locals[i].tr = locals[j].tr
        /\ "AddSelf" \in locals[i].tr
        /\ locals[i].argt = locals[j].argt
        /\ locals[i].e = locals[j].e


\* the erase! invocation the caller would write next
NextInline == InlineDef(Len(locals) + 1)

\* the caller can still add a statement to the block
Open == pc # "done"

\* C4: erase!(x, C), for x a value the caller's expression e evaluates to and
\* whose type satisfies C, is accepted and is x erased to C: what a wrapper
\* generated by eraser! for C returns when it is called once on x.
C4_EraseIsWrapperCalledOnce ==
    \A e \in Exprs, tr \in CapSets :
        LET x == EvalExpr(<<items>>, e)
            r == erase(<<items>>, e, tr, NextInline)
        IN  (x.ok /\ tr # {} /\ tr \subseteq DeclaredTraits
                  /\ tr \subseteq Visible(x.sty))
            => /\ r.ok
               /\ r.res.val = x.val
               /\ r.res.sty.base = x.sty.base
               /\ r.res.sty.wraps = <<[def |-> NextInline, bound |-> tr]>> \o x.sty.wraps
               /\ \A op \in tr \cap Ops :
                      OpValue(op, r.res.val, r.res.val) = OpValue(op, x.val, x.val)

C6_UnsatisfiedCallRejected ==
    /\ \A name \in FnNames, a \in Atoms :
           LET arg == EvalAtom(a)
           IN  (/\ Open /\ items[name].kind = "wrapper" /\ arg.ok
                /\ ~(items[name].bound \subseteq Visible(arg.sty)))
               => ~EvalCall(<<items>>, name, arg).ok
    /\ Open =>
       \A e \in Exprs, tr \in CapSets :
           LET r == erase(<<items>>, e, tr, NextInline)
           IN  (/\ tr # {} /\ tr \subseteq DeclaredTraits
                /\ r.arg.ok /\ ~(tr \subseteq Visible(r.arg.sty))) => ~r.ok
    /\ \A i \in Lets : Visible(locals[i].sty) \subseteq Impls(locals[i].val.ty)

\* the caller has a wrapper for Add<i64, Output=i64> and a variable that holds
\* an i32: the call of the wrapper on it is rejected, and so is erase! on it
C6_Witness ==
    \E name \in FnNames, i \in Lets :
        /\ items[name].kind = "wrapper"
        /\ items[name].bound = {"AddI64"}
        /\ Live(i)
        /\ locals[i].sty.base = "i32"
        /\ ~EvalCall(<<items>>, name, EvalAtom(Var(i))).ok
        /\ ~erase(<<items>>, [fn |-> NoFn, atom |-> Var(i)], {"AddI64"}, NextInline).ok

\* C7 as stated: no wrapper is generated for a capability set that no concrete
\* type satisfies.
C7_UnsatisfiableBoundRejected ==
    \A name \in FnNames :
        items[name].kind = "wrapper" => Inhabited(items[name].bound)

\* C7 amended: eraser!(name, C) is rejected when C is not a well formed bound
\* (it is empty, or it names a trait that is not declared); a well formed C
\* that no concrete type satisfies is accepted when name is free, and then
\* every call of the generated function is rejected.
C7_IllFormedBoundRejected ==
    /\ \A name \in (IF pc = "items" THEN FnNames ELSE {}), tr \in CapSets :
           LET gen == eraser(<<items>>, name, tr, ItemDef(name))
           IN  /\ (tr = {} \/ ~(tr \subseteq DeclaredTraits)) => ~gen.ok
               /\ (/\ tr # {} /\ tr \subseteq DeclaredTraits /\ ~Inhabited(tr)
                   /\ items[name].kind = "none") => gen.ok
    /\ \A name \in FnNames :
           (Open /\ items[name].kind = "wrapper" /\ ~Inhabited(items[name].bound))
           => \A e \in Atoms : ~EvalCall(<<items>>, name, EvalAtom(e)).ok
    /\ \A name \in FnNames :
           items[name].kind = "wrapper" =>
               (items[name].bound # {} /\ items[name].bound \subseteq DeclaredTraits)

\* a wrapper for a trait nothing implements has been generated, and the
\* caller has a variable to call it on
C7_Witness ==
    \E name \in FnNames :
        /\ items[name].kind = "wrapper"
        /\ ~Inhabited(items[name].bound)
        /\ \E i \in Lets : Live(i)

\* C8: erase!(e, C) has the effects of e, once, and no other effect: as many
\* effects as e has where the caller wrote it.
C8_EffectsOfValueOnce ==
    \A i \in Lets :
        (FromInline(i) /\ locals[i].expect.ok)
        => locals[i].ticks = locals[i].expect.ticks

\* C9: the wrapper of an erase! invocation is not an item of the caller's
\* block once the invocation is over, and an erase! invocation is accepted
\* whatever erase! invocations came before it and whatever the caller has
\* declared.
C9_WrapperStaysInBlock ==
    /\ \A name \in FnNames : items[name].def.stmt = 0
    /\ \A a \in Lits, tr \in CapSets :
           (Open /\ tr # {} /\ tr \subseteq Impls(a.ty))
           => erase(<<items>>, [fn |-> NoFn, atom |-> a], tr, NextInline).ok

\* two erase! invocations in one block, in which the caller has its own f
C9_Witness ==
    /\ Len(locals) >= 2
    /\ \A i \in Lets : FromInline(i)
    /\ items["f"].kind = "user"

\* C10: the expression of erase!(e, C) is evaluated as in the caller's scope:
\* what the wrapper is called on is what e evaluates to where the caller
\* wrote it.
C10_ValueUsesCallerBindings ==
    \A i \in Lets :
        FromInline(i) =>
            /\ locals[i].expect.ok
            /\ locals[i].argv = locals[i].expect.val
            /\ locals[i].argt = locals[i].expect.sty

====
